---- MODULE Spec2Model ----
(***************************************************************************)
(* Model of SummaryForDoc: the review screen of MedicalSummarizerApp        *)
(* (src/main.py: search, navigation and deletion in the masked text, the   *)
(* confirmation workflow) and the redaction pipeline of PIIRemover          *)
(* (src/src/pii_remover.py).                                                *)
(*                                                                         *)
(* A text is a sequence of characters, a character is a one-element name   *)
(* (a string).  Offsets are 0-based, as in Python.                          *)
(***************************************************************************)
EXTENDS Integers, Sequences, FiniteSets, TLC

VARIABLES
    confirmation_mode,     \* self.confirmation_mode
    cleaned_text,          \* self.cleaned_text
    pii_log,               \* self.pii_log
    screen,                \* what result_container shows: "none", "review", "results"
    masked_text,           \* self.masked_text_field.value
    search_word,           \* self.search_field.value
    search_results,        \* self.search_results
    current_search_index,  \* self.current_search_index
    search_msg,            \* which message search_result_text shows
    handed,                \* the texts given to MedicalSummarizer.generate_summary, in order
    lastOp,                \* history: the handler that ran last
    query,                 \* history: the search word of the last scan of _on_search
    stale,                 \* history: the buffer was replaced or hand-edited since that scan
    steps,                 \* history: the number of handler runs so far
    \* one PIIRemover, stepped through clean_text
    pc,                    \* the position in clean_text: the pass that runs next
    input,                 \* the text argument of clean_text
    result,                \* the local result, as cells
    replacement_log,       \* self.replacement_log
    placeholder_hit,       \* history: a match of this run covered a cell of a placeholder
    pass_no,               \* history: 1 on an input, 2 on the output of run 1
    report                 \* what get_summary_report returned last, as lines

appVars == <<confirmation_mode, cleaned_text, pii_log, screen, masked_text, search_word,
             search_results, current_search_index, search_msg, handed, lastOp, query, stale,
             steps>>
redactVars == <<pc, input, result, replacement_log, placeholder_hit, pass_no>>
reportVars == <<report>>
vars == <<appVars, redactVars, reportVars>>

(***************************************************************************)
(* Bounds of the model.                                                    *)
(***************************************************************************)
MaxWordLen == 2
MaxSteps == 8
MaxFragments == 3
\* the longest group of digits in a hyphenated number given to clean_text
MaxGroupLen == 4
\* the longest name candidate after a name label in a text given to clean_text
MaxNameLen == 3
\* the longest identifier after a record-ID label in a text given to clean_text
MaxIdLen == 2
\* the most events appended to the log before a report is asked for
MaxLogLen == 5

(***************************************************************************)
(* Python's sequence primitives.                                           *)
(***************************************************************************)
Min(a, b) == IF a < b THEN a ELSE b
Max(a, b) == IF a > b THEN a ELSE b

\* A slice bound as Python normalises it: negative counts from the end, then clipped.
PyBound(n, i) == IF i < 0 THEN Max(0, n + i) ELSE Min(i, n)

\* s[lo:hi]
PySlice(s, lo, hi) ==
    LET a == PyBound(Len(s), lo)
        b == PyBound(Len(s), hi)
    IN  IF a >= b THEN <<>> ELSE SubSeq(s, a + 1, b)

\* s[lo:]
PyFrom(s, lo) == PySlice(s, lo, Len(s))

\* s[:hi]
PyUpTo(s, hi) == PySlice(s, 0, hi)

\* word occurs in text at 0-based offset p
OccursAt(text, word, p) ==
    /\ p >= 0
    /\ p + Len(word) <= Len(text)
    /\ \A k \in 1..Len(word) : text[p + k] = word[k]

\* the least element of a non-empty set of integers
Least(S) == CHOOSE x \in S : \A y \in S : x <= y
Greatest(S) == CHOOSE x \in S : \A y \in S : x >= y

\* text.find(word, start) for 0 <= start
PyFind(text, word, start) ==
    LET found == {p \in start..(Len(text) - Len(word)) : OccursAt(text, word, p)}
    IN  IF found = {} THEN -1 ELSE Least(found)

(***************************************************************************)
(* The modelled alphabet.  Characters outside ASCII carry a name:           *)
(* NL U+000A          FWCOLON U+FF1A     POSTMARK U+3012    CHOON U+30FC     *)
(* k_nen U+5E74       k_gatsu U+6708     k_nichi U+65E5     k_sei U+751F     *)
(* k_mei U+660E       k_dai U+5927       k_shou U+662D      k_hei U+5E73     *)
(* k_rei U+4EE4       k_wa U+548C        k_to U+90FD        k_dou U+9053     *)
(* k_fu U+5E9C        k_ken U+770C       k_shi U+5E02       k_ku U+533A      *)
(* k_machi U+753A     k_mura U+6751      k_gun U+90E1       k_juu U+4F4F     *)
(* k_sho U+6240       k_uji U+6C0F       k_na U+540D        k_kan U+60A3     *)
(* k_sha U+8005       k_yuu U+90F5       k_bin U+4FBF       k_ban U+756A     *)
(* k_gou U+53F7       k_den U+96FB       k_hanashi U+8A71   k_shin U+8A3A    *)
(* k_satsu U+5BDF     k_fuda U+5238      k_ta U+7530        k_naka U+4E2D    *)
(* k_haha U+6BCD      k_chichi U+7236    kt_ka U+30AB       kt_ru U+30EB     *)
(* kt_te U+30C6       hg_a U+3042                                          *)
(***************************************************************************)
Digits == {"0", "1", "2", "3", "4", "5", "6", "7", "8", "9"}
Latin == {"A", "I", "D", "M", "T", "S", "H", "R", "a", "x"}
Punctuation == {"-", "/", ".", ":", "(", ")", "[", "]", "FWCOLON", "POSTMARK"}
KanjiChars ==
    {"k_nen", "k_gatsu", "k_nichi", "k_sei", "k_mei", "k_dai", "k_shou", "k_hei",
     "k_rei", "k_wa", "k_to", "k_dou", "k_fu", "k_ken", "k_shi", "k_ku", "k_machi",
     "k_mura", "k_gun", "k_juu", "k_sho", "k_uji", "k_na", "k_kan", "k_sha", "k_yuu",
     "k_bin", "k_ban", "k_gou", "k_den", "k_hanashi", "k_shin", "k_satsu", "k_fuda",
     "k_ta", "k_naka", "k_haha", "k_chichi"}
Katakana == {"kt_ka", "kt_ru", "kt_te"}
Hiragana == {"hg_a"}
Alphabet ==
    Digits \cup Latin \cup Punctuation \cup KanjiChars \cup Katakana \cup Hiragana
        \cup {"CHOON", " ", "NL"}

(***************************************************************************)
(* The character classes of the patterns of pii_remover.py, over Alphabet.  *)
(***************************************************************************)
ClassDigit == Digits                                        \* \d
ClassSpace == {" ", "NL"}                                   \* \s
ClassWord == Digits \cup Latin \cup KanjiChars \cup Katakana \cup Hiragana \cup {"CHOON"}  \* \w
ClassNotNewline == Alphabet \ {"NL"}                        \* [^\n]
ClassDelim == {"FWCOLON", ":"} \cup ClassSpace              \* [FWCOLON:\s]
ClassEraKanji == {"k_mei", "k_dai", "k_shou", "k_hei", "k_rei", "k_wa"}
ClassEraLetter == {"M", "T", "S", "H", "R"}
ClassDateChar ==
    Digits \cup {"k_nen", "k_gatsu", "k_nichi"} \cup ClassEraKanji \cup ClassEraLetter
        \cup {".", "/", "-"}
ClassPrefecture == {"k_to", "k_dou", "k_fu", "k_ken"}
ClassMunicipality == {"k_shi", "k_ku", "k_machi", "k_mura", "k_gun"}
ClassPlaceChar == KanjiChars \cup Hiragana \cup Katakana \cup {"CHOON"}
ClassBlockChar == ClassPlaceChar \cup Digits \cup {"-", "CHOON"}
ClassWordHyphen == ClassWord \cup {"-"}                     \* [\w\-]
ClassNameChar == KanjiChars \cup Katakana \cup {"CHOON"} \cup ClassSpace

(***************************************************************************)
(* Regular expressions.  A pattern is a sequence of elements, each a        *)
(* character class with a greedy repetition count; a rule is a sequence of  *)
(* alternative patterns tried in order at each position, as re does for     *)
(* (?:a|b)c and (?:a)?c.                                                    *)
(*                                                                         *)
(* The text a pass works on is a sequence of cells [c, o]: c the character, *)
(* o whether the cell is a character of the input of clean_text and not of  *)
(* an inserted placeholder.  Matching reads c alone.                        *)
(***************************************************************************)
Rep(cls, m, n) == [cls |-> cls, min |-> m, max |-> n, inf |-> FALSE]
AtLeast(cls, m) == [cls |-> cls, min |-> m, max |-> m, inf |-> TRUE]
One(cls) == Rep(cls, 1, 1)
Opt(cls) == Rep(cls, 0, 1)
Star(cls) == AtLeast(cls, 0)
Plus(cls) == AtLeast(cls, 1)
Lit(chars) == [i \in 1..Len(chars) |-> One({chars[i]})]

Chars(cells) == [i \in 1..Len(cells) |-> cells[i].c]
Cells(chars, orig) == [i \in 1..Len(chars) |-> [c |-> chars[i], o |-> orig]]

\* how many cells from offset pos on are in cls, at most cap
RunLen(text, pos, cls, cap) ==
    LET lim == Min(cap, Len(text) - pos)
        stop == {j \in 1..lim : text[pos + j].c \notin cls}
    IN  IF stop = {} THEN Max(lim, 0) ELSE Least(stop) - 1

RECURSIVE MatchAt(_, _, _, _)
\* The match of pat[k..] at offset pos that backtracking finds first: the offsets
\* where the elements k, k+1, ... start, then the end offset; <<>> when none.
\* Element k is greedy: it takes the most cells with which the rest matches.
MatchAt(text, pos, pat, k) ==
    IF k > Len(pat) THEN <<pos>>
    ELSE LET e == pat[k]
             run == RunLen(text, pos, e.cls, IF e.inf THEN Len(text) ELSE e.max)
             ok == {cnt \in e.min..run : MatchAt(text, pos + cnt, pat, k + 1) # <<>>}
         IN  IF ok = {} THEN <<>>
             ELSE <<pos>> \o MatchAt(text, pos + Greatest(ok), pat, k + 1)

RECURSIVE MatchAlts(_, _, _, _)
MatchAlts(text, pos, alts, a) ==
    IF a > Len(alts) THEN <<>>
    ELSE LET m == MatchAt(text, pos, alts[a], 1)
         IN  IF m # <<>> THEN m ELSE MatchAlts(text, pos, alts, a + 1)

MatchStart(m) == m[1]
MatchEnd(m) == m[Len(m)]
\* the start of the last element, the one capture group of pattern3
GroupStart(m) == m[Len(m) - 1]

RECURSIVE FindAll(_, _, _)
RECURSIVE FindAfter(_, _, _)
\* the matches re.sub replaces: leftmost, not overlapping (no pattern matches "")
FindAll(text, alts, pos) ==
    LET starts == {p \in pos..(Len(text) - 1) : MatchAlts(text, p, alts, 1) # <<>>}
    IN  IF starts = {} THEN <<>>
        ELSE FindAfter(text, alts, MatchAlts(text, Least(starts), alts, 1))

\* the match m, then the matches from its end on
FindAfter(text, alts, m) == <<m>> \o FindAll(text, alts, MatchEnd(m))

RECURSIVE Splice(_, _, _, _, _)
\* the text with match i, i+1, ... replaced by pieces[i], pieces[i+1], ...
Splice(text, matches, pieces, i, pos) ==
    IF i > Len(matches) THEN PyFrom(text, pos)
    ELSE PySlice(text, pos, MatchStart(matches[i])) \o pieces[i]
            \o Splice(text, matches, pieces, i + 1, MatchEnd(matches[i]))

RECURSIVE Flatten(_)
Flatten(seqs) == IF seqs = <<>> THEN <<>> ELSE Head(seqs) \o Flatten(Tail(seqs))

Group0(text, m) == PySlice(text, MatchStart(m), MatchEnd(m))
Placeholder(label) == Cells(<<"[">> \o label \o <<"]">>, FALSE)

(***************************************************************************)
(* PIIRemover (src/src/pii_remover.py).  A category label is the text of    *)
(* the label; an event of the log is <<label, original value>>.  A rule is  *)
(* [alts, label, repl]: the pattern, the label its events carry, and which  *)
(* callback re.sub is given.  A callback returns [piece, events] for a      *)
(* match: the replacement and what it appends to self.replacement_log.      *)
(***************************************************************************)
LabelBirthdate == <<"k_sei", "k_nen", "k_gatsu", "k_nichi">>
LabelPostal == <<"k_yuu", "k_bin", "k_ban", "k_gou">>
LabelAddress == <<"k_juu", "k_sho">>
LabelPhone == <<"k_den", "k_hanashi", "k_ban", "k_gou">>
LabelID == <<"I", "D">>
LabelName == <<"k_uji", "k_na">>

\* the entries of MEDICAL_TERMS that can occur in a text over Alphabet
MEDICAL_TERMS == { <<"k_kan", "k_sha">>, <<"k_haha">>, <<"k_chichi">> }

\* def replace_with_log(match): log (label, match.group(0)); return '[label]'
ReplaceWithLog(label, text, m) ==
    [piece |-> Placeholder(label), events |-> << <<label, Chars(Group0(text, m))>> >>]

\* re.match(r'\d{1,2}-\d{1,2}-\d{1,2}', matched)
PhoneGuardPattern ==
    <<Rep(ClassDigit, 1, 2), One({"-"}), Rep(ClassDigit, 1, 2), One({"-"}), Rep(ClassDigit, 1, 2)>>

\* replace_with_log of remove_phone_numbers
ReplacePhone(text, m) ==
    LET matched == Group0(text, m)
    IN  IF MatchAt(matched, 0, PhoneGuardPattern, 1) # <<>>
        THEN [piece |-> matched, events |-> <<>>]
        ELSE ReplaceWithLog(LabelPhone, text, m)

\* str.strip()
PyStrip(chars) ==
    LET solid == {i \in 1..Len(chars) : chars[i] \notin ClassSpace}
    IN  IF solid = {} THEN <<>> ELSE SubSeq(chars, Least(solid), Greatest(solid))

\* term in match_text
Contains(chars, term) == \E p \in 0..(Len(chars) - Len(term)) : OccursAt(chars, term, p)

\* a variant of the check that protects a candidate only when it is a term itself
\* (C13 is tested against it)
IsMedicalTerm_exact(match_text) == match_text \in MEDICAL_TERMS
IsMedicalTerm(match_text) == \E term \in MEDICAL_TERMS : Contains(match_text, term)

RECURSIVE PyReplaceFrom(_, _, _, _)
\* the occurrences of old are replaced from left to right, not overlapping
PyReplaceFrom(cells, old, new, pos) ==
    LET p == PyFind(Chars(cells), old, pos)
    IN  IF p = -1 THEN PyFrom(cells, pos)
        ELSE PySlice(cells, pos, p) \o new \o PyReplaceFrom(cells, old, new, p + Len(old))

\* str.replace(old, new); an empty old matches before every character and at the end
PyReplace(cells, old, new) ==
    IF old = <<>>
    THEN Flatten([i \in 1..Len(cells) |-> new \o <<cells[i]>>]) \o new
    ELSE PyReplaceFrom(cells, old, new, 0)

ReplaceExplicitName(text, m) ==
    LET name == PyStrip(Chars(PySlice(text, GroupStart(m), MatchEnd(m))))
    IN  IF ~IsMedicalTerm(name)
        THEN [piece |-> PyReplace(Group0(text, m), name, Placeholder(LabelName)),
              events |-> << <<LabelName, name>> >>]
        ELSE [piece |-> Group0(text, m), events |-> <<>>]

\* the callback that re.sub is given for the rule
Callback(rule, text, m) ==
    CASE rule.repl = "replace_with_log" -> ReplaceWithLog(rule.label, text, m)
      [] rule.repl = "replace_phone" -> ReplacePhone(text, m)
      [] rule.repl = "replace_explicit_name" -> ReplaceExplicitName(text, m)

\* the matches replaced by what the callback returns for them, the events the
\* callback logs, and whether a match covers a cell of a placeholder
Substitute(text, matches, rule) ==
    LET r == [i \in 1..Len(matches) |-> Callback(rule, text, matches[i])]
    IN  [text |-> Splice(text, matches, [i \in 1..Len(matches) |-> r[i].piece], 1, 0),
         events |-> Flatten([i \in 1..Len(matches) |-> r[i].events]),
         hit |-> \E i \in 1..Len(matches) :
                    \E p \in (MatchStart(matches[i]) + 1)..MatchEnd(matches[i]) : ~text[p].o]

\* re.sub(pattern, callback, text)
ReSub(text, rule) == Substitute(text, FindAll(text, rule.alts, 0), rule)

\* the state of a run after a substitution r: the text, self.replacement_log, and
\* whether some match so far covered a cell of a placeholder
AfterSub(st, r) == [text |-> r.text, log |-> st.log \o r.events, hit |-> st.hit \/ r.hit]

\* one rule applied to the state of a run
ApplyRule(st, rule) == AfterSub(st, ReSub(st.text, rule))

RECURSIVE SubEach(_, _, _)
\* for pattern, label in patterns: result = re.sub(pattern, replace_with_log, result)
\* Each substitution works on the value that the one before it returned.
SubEach(st, patterns, k) ==
    IF k > Len(patterns) THEN st
    ELSE CHOOSE out \in
             {SubEach(nxt, patterns, k + 1) : nxt \in {ApplyRule(st, patterns[k])}} : TRUE

\* ---- remove_birthdates
\* a variant of the first date pattern that wants a month of two digits (C15 is tested
\* against it)
DatePattern1_twoDigitMonth ==
    <<Rep(ClassDigit, 4, 4), One({"k_nen", "/", "-"}), Rep(ClassDigit, 2, 2),
      One({"k_gatsu", "/", "-"}), Rep(ClassDigit, 1, 2), Opt({"k_nichi"})>>
DatePattern1 ==
    <<Rep(ClassDigit, 4, 4), One({"k_nen", "/", "-"}), Rep(ClassDigit, 1, 2),
      One({"k_gatsu", "/", "-"}), Rep(ClassDigit, 1, 2), Opt({"k_nichi"})>>
DatePattern2 ==
    <<Rep(ClassEraKanji, 1, 2), Rep(ClassDigit, 1, 3), One({"k_nen", "."}),
      Rep(ClassDigit, 1, 2), One({"k_gatsu", "."}), Rep(ClassDigit, 1, 2), Opt({"k_nichi"})>>
DatePattern3 ==
    <<One(ClassEraLetter), Rep(ClassDigit, 1, 3), One({".", "/"}), Rep(ClassDigit, 1, 2),
      One({".", "/"}), Rep(ClassDigit, 1, 2)>>
DatePattern4 == Lit(LabelBirthdate) \o <<Star(ClassDelim), AtLeast(ClassDateChar, 6)>>

LoggedRule(alts, label) == [alts |-> alts, label |-> label, repl |-> "replace_with_log"]

BirthdatePatterns ==
    << LoggedRule(<<DatePattern1>>, LabelBirthdate),
       LoggedRule(<<DatePattern2>>, LabelBirthdate),
       LoggedRule(<<DatePattern3>>, LabelBirthdate),
       LoggedRule(<<DatePattern4>>, LabelBirthdate) >>

RemoveBirthdates(st) == SubEach(st, BirthdatePatterns, 1)

\* ---- remove_addresses
AddressPattern1 ==
    <<Opt({"POSTMARK"}), Rep(ClassDigit, 3, 3), Opt({"-"}), Rep(ClassDigit, 4, 4)>>
AddressPattern2 ==
    <<One(ClassPrefecture), Plus(ClassPlaceChar), One(ClassMunicipality), Plus(ClassBlockChar)>>
AddressPattern3 == Lit(LabelAddress) \o <<Star(ClassDelim), Rep(ClassNotNewline, 5, 50)>>

AddressPatterns ==
    << LoggedRule(<<AddressPattern1>>, LabelPostal),
       LoggedRule(<<AddressPattern2>>, LabelAddress),
       LoggedRule(<<AddressPattern3>>, LabelAddress) >>

RemoveAddresses(st) == SubEach(st, AddressPatterns, 1)

\* ---- remove_phone_numbers
PhonePattern1 ==
    <<Rep(ClassDigit, 2, 4), One({"-"}), Rep(ClassDigit, 2, 4), One({"-"}), Rep(ClassDigit, 4, 4)>>
PhonePattern2 == <<Rep(ClassDigit, 10, 11)>>
PhonePattern3 ==
    <<One({"("}), Rep(ClassDigit, 2, 4), One({")"}), Star(ClassSpace),
      Rep(ClassDigit, 2, 4), One({"-"}), Rep(ClassDigit, 4, 4)>>

PhoneRule(alts) == [alts |-> alts, label |-> LabelPhone, repl |-> "replace_phone"]

PhonePatterns ==
    << PhoneRule(<<PhonePattern1>>), PhoneRule(<<PhonePattern2>>), PhoneRule(<<PhonePattern3>>) >>

RemovePhoneNumbers(st) == SubEach(st, PhonePatterns, 1)

\* ---- remove_medical_ids
IdTail == <<Star(ClassDelim), Plus(ClassWordHyphen)>>
IdPattern1 ==
    << Lit(<<"k_shin", "k_satsu", "k_fuda">>) \o IdTail,
       Lit(<<"k_kan", "k_sha", "I", "D">>) \o IdTail,
       Lit(<<"kt_ka", "kt_ru", "kt_te", "k_ban", "k_gou">>) \o IdTail >>
IdPattern2 == << Lit(LabelID) \o IdTail >>

IdPatterns == << LoggedRule(IdPattern1, LabelID), LoggedRule(IdPattern2, LabelID) >>

RemoveMedicalIds(st) == SubEach(st, IdPatterns, 1)

\* ---- remove_names (pattern1 and pattern2 are defined and never applied)
NameTail == <<Star(ClassDelim), Rep(ClassNameChar, 2, 10)>>
NamePattern3 ==
    << Lit(<<"k_kan", "k_sha">> \o LabelName) \o NameTail,
       Lit(LabelName) \o NameTail >>

NameRule == [alts |-> NamePattern3, label |-> LabelName, repl |-> "replace_explicit_name"]

RemoveNames(st) == ApplyRule(st, NameRule)

\* ---- clean_text
StartRun(t) == [text |-> Cells(t, TRUE), log |-> <<>>, hit |-> FALSE]

\* the five passes in the order of clean_text; each works on the value that the
\* pass before it returned
CleanRun(t) ==
    CHOOSE s5 \in
        {RemoveNames(s4) : s4 \in
            {RemoveMedicalIds(s3) : s3 \in
                {RemovePhoneNumbers(s2) : s2 \in
                    {RemoveAddresses(s1) : s1 \in {RemoveBirthdates(StartRun(t))}}}}} : TRUE

CleanText(t) == LET st == CleanRun(t) IN [text |-> Chars(st.text), log |-> st.log]

(***************************************************************************)
(* The review screen: search, navigation, deletion (src/main.py).          *)
(***************************************************************************)
\* The inputs of the model: the texts FileReader.read_multiple_files returns and the
\* words the user types into the search field.
SearchChars == {"A"}
Documents ==
    { <<"A", "x", "x", "A", "x", "x", "A">>,
      <<"A", "A", "A">> }

RECURSIVE SeqsUpTo(_, _)
SeqsUpTo(S, n) ==
    IF n = 0 THEN {<<>>}
    ELSE LET shorter == SeqsUpTo(S, n - 1)
         IN  shorter \cup {Append(w, c) : w \in shorter, c \in S}

Words == SeqsUpTo(SearchChars, MaxWordLen)

\* documents and search words in which the removal of a match joins the characters
\* around it
ReviewDocuments == { <<"A", "A", "x", "x">>, <<"A", "x", "A", "x">> }
ReviewWords == { <<>>, <<"A">>, <<"A", "x">> }

\* start = pos + 1 (NextStart_skipMatch: a scan that would skip overlapping
\* occurrences, the variant C3 is tested against)
NextStart_skipMatch(pos, word) == pos + Len(word)
NextStart(pos, word) == pos + 1

RECURSIVE SearchScan(_, _, _)
\* the while loop of _on_search
SearchScan(text, word, start) ==
    LET pos == PyFind(text, word, start)
    IN  IF pos = -1 THEN <<>>
        ELSE <<pos>> \o SearchScan(text, word, NextStart(pos, word))

\* self.search_results.pop(i), then results[j] -= len(search_word) for j >= i
ShiftedResults(results, i, word) ==
    [j \in 1..(Len(results) - 1) |->
        IF j <= i THEN results[j] ELSE results[j + 1] - Len(word)]

\* new_text = text[:pos] + text[pos + len(search_word):]
DeletedText(text, pos, word) == PyUpTo(text, pos) \o PyFrom(text, pos + Len(word))

\* if self.current_search_index >= len(self.search_results): index = len - 1
\* (ClampIndex_none: no clamping, the variant C4 is tested against)
ClampIndex_none(i, n) == i
ClampIndex(i, n) == IF i >= n THEN n - 1 ELSE i

\* (index + 1) % len, (index - 1) % len
\* (NextIndex_noWrap: stops at the last index, the variant C5 is tested against)
NextIndex_noWrap(i, n) == Min(i + 1, n - 1)
NextIndex(i, n) == (i + 1) % n
PrevIndex(i, n) == (i - 1) % n

\* self.search_results[self.current_search_index] raises IndexError out of range
\* (a negative index counts from the end)
IndexOK(results, i) == -Len(results) <= i /\ i < Len(results)
PyItem(results, i) == IF i < 0 THEN results[Len(results) + i + 1] ELSE results[i + 1]

sessionVars == <<masked_text, search_word, search_results, current_search_index, search_msg>>
flowVars == <<confirmation_mode, cleaned_text, pii_log, screen, handed>>

AppInit ==
    /\ confirmation_mode = TRUE
    /\ cleaned_text = <<>>
    /\ pii_log = <<>>
    /\ screen = "none"
    /\ masked_text = <<>>
    /\ search_word = <<>>
    /\ search_results = <<>>
    /\ current_search_index = 0
    /\ search_msg = "none"
    /\ handed = <<>>
    /\ lastOp = "init"
    /\ query = <<>>
    /\ stale = FALSE
    /\ steps = 0

\* every handler run is counted; the model stops after MaxSteps of them
Tick ==
    /\ steps < MaxSteps
    /\ steps' = steps + 1
    /\ UNCHANGED redactVars
    /\ UNCHANGED reportVars

\* the user types into search_field
OnTypeSearchWord(w) ==
    /\ Tick
    /\ screen = "review"
    /\ w # search_word
    /\ search_word' = w
    /\ lastOp' = "type"
    /\ UNCHANGED <<masked_text, search_results, current_search_index, search_msg,
                   query, stale>>
    /\ UNCHANGED flowVars

\* the user removes one character of masked_text_field by hand
OnEditMaskedText(i) ==
    /\ Tick
    /\ screen = "review"
    /\ i \in 1..Len(masked_text)
    /\ masked_text' = SubSeq(masked_text, 1, i - 1) \o SubSeq(masked_text, i + 1, Len(masked_text))
    /\ stale' = TRUE
    /\ lastOp' = "edit"
    /\ UNCHANGED <<search_word, search_results, current_search_index, search_msg, query>>
    /\ UNCHANGED flowVars

OnSearch ==
    /\ Tick
    /\ screen = "review"
    /\ lastOp' = "search"
    /\ UNCHANGED <<masked_text, search_word>>
    /\ UNCHANGED flowVars
    /\ IF search_word = <<>>
       THEN /\ search_msg' = "empty_query"
            /\ UNCHANGED <<search_results, current_search_index, query, stale>>
       ELSE LET found == SearchScan(masked_text, search_word, 0)
            IN  /\ search_results' = found
                /\ query' = search_word
                /\ stale' = FALSE
                /\ IF found = <<>>
                   THEN /\ search_msg' = "not_found"
                        /\ UNCHANGED current_search_index
                   ELSE /\ search_msg' = "shown"
                        /\ current_search_index' = 0

OnPrevSearch ==
    /\ Tick
    /\ screen = "review"
    /\ UNCHANGED <<masked_text, search_word, search_results, query, stale>>
    /\ UNCHANGED flowVars
    /\ IF search_results = <<>>
       THEN /\ lastOp' = "prev"
            /\ UNCHANGED <<current_search_index, search_msg>>
       ELSE LET i == PrevIndex(current_search_index, Len(search_results))
            IN  /\ current_search_index' = i
                /\ IF IndexOK(search_results, i)
                   THEN lastOp' = "prev" /\ search_msg' = "shown"
                   ELSE lastOp' = "IndexError" /\ UNCHANGED search_msg

\* a variant of _on_next_search without the early return, which puts the cursor on 0
\* when the list is empty (C6 is tested against it)
OnNextSearch_resetsCursor ==
    /\ Tick
    /\ screen = "review"
    /\ UNCHANGED <<masked_text, search_word, search_results, query, stale>>
    /\ UNCHANGED flowVars
    /\ lastOp' = "next"
    /\ IF search_results = <<>>
       THEN current_search_index' = 0 /\ UNCHANGED search_msg
       ELSE /\ current_search_index' = NextIndex(current_search_index, Len(search_results))
            /\ search_msg' = "shown"

OnNextSearch ==
    /\ Tick
    /\ screen = "review"
    /\ UNCHANGED <<masked_text, search_word, search_results, query, stale>>
    /\ UNCHANGED flowVars
    /\ IF search_results = <<>>
       THEN /\ lastOp' = "next"
            /\ UNCHANGED <<current_search_index, search_msg>>
       ELSE LET i == NextIndex(current_search_index, Len(search_results))
            IN  /\ current_search_index' = i
                /\ IF IndexOK(search_results, i)
                   THEN lastOp' = "next" /\ search_msg' = "shown"
                   ELSE lastOp' = "IndexError" /\ UNCHANGED search_msg

OnDeleteCurrentMatch ==
    /\ Tick
    /\ screen = "review"
    /\ UNCHANGED <<search_word, query, stale>>
    /\ UNCHANGED flowVars
    /\ IF search_results = <<>>
       THEN /\ search_msg' = "no_results"
            /\ lastOp' = "delete"
            /\ UNCHANGED <<masked_text, search_results, current_search_index>>
       ELSE IF ~IndexOK(search_results, current_search_index)
       THEN /\ lastOp' = "IndexError"
            /\ UNCHANGED <<masked_text, search_results, current_search_index, search_msg>>
       ELSE LET pos == PyItem(search_results, current_search_index)
                rest == ShiftedResults(search_results, current_search_index, search_word)
                i == ClampIndex(current_search_index, Len(rest))
            IN  /\ masked_text' = DeletedText(masked_text, pos, search_word)
                /\ search_results' = rest
                /\ IF rest # <<>>
                   THEN /\ current_search_index' = i
                        /\ IF IndexOK(rest, i)
                           THEN lastOp' = "delete" /\ search_msg' = "deleted"
                           ELSE lastOp' = "IndexError" /\ UNCHANGED search_msg
                   ELSE /\ UNCHANGED current_search_index
                        /\ search_msg' = "all_deleted"
                        /\ lastOp' = "delete"


(***************************************************************************)
(* The confirmation workflow (src/main.py).                                *)
(***************************************************************************)
OnToggleConfirmationMode ==
    /\ Tick
    /\ confirmation_mode' = ~confirmation_mode
    /\ lastOp' = "toggle"
    /\ UNCHANGED <<cleaned_text, pii_log, screen, handed, query, stale>>
    /\ UNCHANGED sessionVars

\* _execute_summary_generation: MedicalSummarizer() may raise (unsupported provider);
\* else self.cleaned_text goes to generate_summary, and then the result cards are
\* shown, or only an error status when the summary carries an error
ExecuteSummaryGeneration(text) ==
    \E outcome \in {"no_summarizer", "summary_error", "shown"} :
        /\ handed' = IF outcome = "no_summarizer" THEN handed ELSE Append(handed, text)
        /\ screen' = IF outcome = "shown" THEN "results" ELSE "none"

\* _show_masked_text_with_summary: a new search field, a new result label and a new
\* text field holding the masked text; search_results and current_search_index stay
ShowMaskedTextWithSummary(text) ==
    /\ screen' = "review"
    /\ masked_text' = text
    /\ search_word' = <<>>
    /\ search_msg' = "none"
    /\ stale' = TRUE
    /\ UNCHANGED <<search_results, current_search_index, query>>

\* self.pii_remover.clean_text(all_text), tabulated over the documents of the model
CleanedDocument == [d \in Documents \cup ReviewDocuments |-> CleanText(d)]

\* a variant of _on_process that ignores confirmation_mode (C8 is tested against it)
OnProcess_noReview(all_text) ==
    LET r == CleanedDocument[all_text]
    IN  /\ Tick
        /\ cleaned_text' = r.text
        /\ pii_log' = r.log
        /\ lastOp' = "process"
        /\ UNCHANGED confirmation_mode
        /\ ExecuteSummaryGeneration(r.text)
        /\ UNCHANGED <<query, stale>>
        /\ UNCHANGED sessionVars

OnProcess(all_text) ==
    LET r == CleanedDocument[all_text]
    IN  /\ Tick
        /\ cleaned_text' = r.text
        /\ pii_log' = r.log
        /\ lastOp' = "process"
        /\ UNCHANGED confirmation_mode
        /\ IF confirmation_mode
           THEN /\ ShowMaskedTextWithSummary(r.text)
                /\ UNCHANGED handed
           ELSE /\ ExecuteSummaryGeneration(r.text)
                /\ UNCHANGED <<query, stale>>
                /\ UNCHANGED sessionVars

\* read_multiple_files raises: the container was cleared, nothing else changed
OnProcessReadError ==
    /\ Tick
    /\ screen' = "none"
    /\ lastOp' = "process_error"
    /\ UNCHANGED <<confirmation_mode, cleaned_text, pii_log, handed, query, stale>>
    /\ UNCHANGED sessionVars

\* a variant that hands over the redacted text as the run left it, without the edits
\* of the review (C18 is tested against it)
OnCreateSummaryAfterConfirmation_unedited ==
    /\ Tick
    /\ screen = "review"
    /\ lastOp' = "confirm"
    /\ ExecuteSummaryGeneration(cleaned_text)
    /\ UNCHANGED <<confirmation_mode, cleaned_text, pii_log, query, stale>>
    /\ UNCHANGED sessionVars
OnCreateSummaryAfterConfirmation ==
    /\ Tick
    /\ screen = "review"
    /\ cleaned_text' = masked_text
    /\ lastOp' = "confirm"
    /\ ExecuteSummaryGeneration(masked_text)
    /\ UNCHANGED <<confirmation_mode, pii_log, query, stale>>
    /\ UNCHANGED sessionVars

(***************************************************************************)
(* clean_text, pass by pass, on the texts of Inputs; and once more on its   *)
(* own output.                                                             *)
(***************************************************************************)
Fragments ==
    { LabelAddress,
      LabelName,
      LabelID,
      <<"FWCOLON">>,
      <<"x">>,
      <<"k_ta", "k_naka">>,
      <<"k_ken", "hg_a", "k_shi", "hg_a">>,
      <<"2", "0", "2", "3", "-", "4", "-", "1", "5">> }

Inputs == {Flatten(fs) : fs \in SeqsUpTo(Fragments, MaxFragments)}

RedactInit ==
    /\ pc = "idle"
    /\ input = <<>>
    /\ result = <<>>
    /\ replacement_log = <<>>
    /\ placeholder_hit = FALSE
    /\ pass_no = 0

\* self.replacement_log = []; result = text
CleanTextBegin(text, n) ==
    /\ pc' = "birthdates"
    /\ input' = text
    /\ result' = Cells(text, TRUE)
    /\ replacement_log' = <<>>
    /\ placeholder_hit' = FALSE
    /\ pass_no' = n
    /\ UNCHANGED appVars
    /\ UNCHANGED reportVars

CallCleanText(text) ==
    /\ pc = "idle"
    /\ CleanTextBegin(text, 1)

\* clean_text again, on the text the first run returned
CallCleanTextOnOutput ==
    /\ pc = "returned"
    /\ pass_no = 1
    /\ CleanTextBegin(Chars(result), 2)

RunState == [text |-> result, log |-> replacement_log, hit |-> placeholder_hit]

Pass(here, st, next) ==
    /\ pc = here
    /\ pc' = next
    /\ result' = st.text
    /\ replacement_log' = st.log
    /\ placeholder_hit' = st.hit
    /\ UNCHANGED <<input, pass_no>>
    /\ UNCHANGED appVars
    /\ UNCHANGED reportVars

\* a variant of clean_text that runs the name pass where the date pass belongs (C11 is
\* tested against it)
PassBirthdates_namesFirst == Pass("birthdates", RemoveNames(RunState), "addresses")
PassBirthdates == Pass("birthdates", RemoveBirthdates(RunState), "addresses")
PassAddresses == Pass("addresses", RemoveAddresses(RunState), "phones")
PassPhoneNumbers == Pass("phones", RemovePhoneNumbers(RunState), "ids")
PassMedicalIds == Pass("ids", RemoveMedicalIds(RunState), "names")
PassNames == Pass("names", RemoveNames(RunState), "returned")

(***************************************************************************)
(* get_summary_report.  The returned string is modelled as its lines, the   *)
(* lines as what their format strings are given.                            *)
(***************************************************************************)
NoPiiMessage == <<"none">>                             \* the one line of an empty log
HeaderLine == <<"header">>
CategoryLine(category, n) == <<"category", category, n>>
ExampleLine(i, value) == <<"example", i, value>>
MoreLine(n) == <<"more", n>>

RECURSIVE Categorize(_, _, _)
\* the dict categories, as its entries in insertion order, after the events k, k+1, ...
Categorize(log, k, categories) ==
    IF k > Len(log) THEN categories
    ELSE LET category == log[k][1]
             value == log[k][2]
             at == {i \in 1..Len(categories) : categories[i].category = category}
         IN  Categorize(log, k + 1,
                 IF at = {}
                 THEN Append(categories, [category |-> category, values |-> <<value>>])
                 ELSE [categories EXCEPT ![Least(at)].values = Append(@, value)])

\* a variant that lists every value of a category (C17 is tested against it)
Examples_all(values) == values
Examples(values) == PyUpTo(values, 3)

\* the lines of one category
CategoryLines(entry) ==
    <<CategoryLine(entry.category, Len(entry.values))>>
        \o [i \in 1..Len(Examples(entry.values)) |-> ExampleLine(i, Examples(entry.values)[i])]
        \o (IF Len(entry.values) > 3 THEN <<MoreLine(Len(entry.values) - 3)>> ELSE <<>>)

ReportLines(categories) ==
    <<HeaderLine>> \o Flatten([i \in 1..Len(categories) |-> CategoryLines(categories[i])])

SummaryReport(log) ==
    IF log = <<>> THEN <<NoPiiMessage>> ELSE ReportLines(Categorize(log, 1, <<>>))

ReportInit == report = <<>>

ReportLabels == {LabelName, LabelID}
ReportValues == {<<"1">>, <<"2">>}

\* self.replacement_log.append((label, match.group(0)))
AppendEvent(label, value) ==
    /\ pc = "idle"
    /\ Len(replacement_log) < MaxLogLen
    /\ replacement_log' = Append(replacement_log, <<label, value>>)
    /\ UNCHANGED <<pc, input, result, placeholder_hit, pass_no>>
    /\ UNCHANGED appVars
    /\ UNCHANGED reportVars

GetSummaryReport ==
    /\ report' = SummaryReport(replacement_log)
    /\ UNCHANGED appVars
    /\ UNCHANGED redactVars

(***************************************************************************)
(* The specifications: the application, and the redaction pipeline alone.   *)
(***************************************************************************)
Init == AppInit /\ RedactInit /\ ReportInit

Next ==
    \/ \E w \in Words : OnTypeSearchWord(w)
    \/ \E i \in 1..Len(masked_text) : OnEditMaskedText(i)
    \/ OnSearch
    \/ OnPrevSearch
    \/ OnNextSearch
    \/ OnDeleteCurrentMatch
    \/ OnToggleConfirmationMode
    \/ \E d \in Documents : OnProcess(d)
    \/ OnProcessReadError
    \/ OnCreateSummaryAfterConfirmation

Spec == Init /\ [][Next]_vars

\* the application on the documents and the search words of ReviewDocuments, ReviewWords
ReviewNext ==
    \/ \E w \in ReviewWords : OnTypeSearchWord(w)
    \/ \E i \in 1..Len(masked_text) : OnEditMaskedText(i)
    \/ OnSearch
    \/ OnPrevSearch
    \/ OnNextSearch
    \/ OnDeleteCurrentMatch
    \/ OnToggleConfirmationMode
    \/ \E d \in ReviewDocuments : OnProcess(d)
    \/ OnProcessReadError
    \/ OnCreateSummaryAfterConfirmation

SpecReview == Init /\ [][ReviewNext]_vars

RedactNext ==
    \/ \E t \in Inputs : CallCleanText(t)
    \/ PassBirthdates
    \/ PassAddresses
    \/ PassPhoneNumbers
    \/ PassMedicalIds
    \/ PassNames
    \/ CallCleanTextOnOutput

SpecRedact == Init /\ [][RedactNext]_vars

ReportNext ==
    \/ \E label \in ReportLabels, value \in ReportValues : AppendEvent(label, value)
    \/ GetSummaryReport

SpecReport == Init /\ [][ReportNext]_vars

(***************************************************************************)
(* clean_text on texts that hold one number: groups of digits joined by     *)
(* hyphens, a bare run of digits, or a number with an area code in          *)
(* parentheses; alone or after another character.                           *)
(***************************************************************************)
DigitChar == <<"0", "1", "2", "3", "4", "5", "6", "7", "8", "9">>

\* n digits, counting up from s
DigitRun(s, n) == [i \in 1..n |-> DigitChar[((s + i - 1) % 10) + 1]]

Hyphenated(a, b, c) ==
    DigitRun(0, a) \o <<"-">> \o DigitRun(a, b) \o <<"-">> \o DigitRun(a + b, c)

Parenthesized(a, sp, b) ==
    <<"(">> \o DigitRun(0, a) \o <<")">> \o sp \o DigitRun(a, b) \o <<"-">> \o DigitRun(a + b, 4)

NumberTexts ==
    {Hyphenated(a, b, c) : a, b, c \in 1..MaxGroupLen}
        \cup {DigitRun(0, n) : n \in 10..11}
        \cup {Parenthesized(a, sp, b) : a, b \in 2..MaxGroupLen, sp \in {<<>>, <<" ">>}}

PhoneInputs == {pre \o t : pre \in {<<>>, <<"x">>}, t \in NumberTexts}

PhoneNext ==
    \/ \E t \in PhoneInputs : CallCleanText(t)
    \/ PassBirthdates
    \/ PassAddresses
    \/ PassPhoneNumbers
    \/ PassMedicalIds
    \/ PassNames

SpecPhone == Init /\ [][PhoneNext]_vars

(***************************************************************************)
(* clean_text on texts that hold a name label, a delimiter and a candidate  *)
(* made of characters of the name class: a character of a name, a protected *)
(* term, a blank, and the two characters of the label itself.               *)
(***************************************************************************)
NameChars == {"k_ta", "k_haha", " ", "k_uji", "k_na"}

NameInputs ==
    { pre \o LabelName \o del \o cand :
        pre \in {<<>>, <<"k_kan", "k_sha">>},
        del \in {<<>>, <<"FWCOLON">>, <<" ">>},
        cand \in SeqsUpTo(NameChars, MaxNameLen) }

NameNext ==
    \/ \E t \in NameInputs : CallCleanText(t)
    \/ PassBirthdates
    \/ PassAddresses
    \/ PassPhoneNumbers
    \/ PassMedicalIds
    \/ PassNames

SpecName == Init /\ [][NameNext]_vars

(***************************************************************************)
(* clean_text on texts that hold a record-ID label, a delimiter and an      *)
(* identifier of word characters and hyphens.                               *)
(***************************************************************************)
IdLabels ==
    { <<"k_shin", "k_satsu", "k_fuda">>,
      <<"k_kan", "k_sha", "I", "D">>,
      <<"kt_ka", "kt_ru", "kt_te", "k_ban", "k_gou">>,
      <<"I", "D">>,
      <<"k_shin", "k_satsu", "k_fuda", "k_ban", "k_gou">> }

IdDelimiters == { <<"FWCOLON">>, <<":">>, <<" ">> }

Identifiers == SeqsUpTo({"1", "a", "-"}, MaxIdLen) \ {<<>>}

IdInputs == {l \o del \o id : l \in IdLabels, del \in IdDelimiters, id \in Identifiers}

IdNext ==
    \/ \E t \in IdInputs : CallCleanText(t)
    \/ PassBirthdates
    \/ PassAddresses
    \/ PassPhoneNumbers
    \/ PassMedicalIds
    \/ PassNames

SpecId == Init /\ [][IdNext]_vars

(***************************************************************************)
(* Properties of the review screen and of the workflow, under Spec.         *)
(***************************************************************************)
\* The match list is the one the last search built for the word that is still in the
\* search field, and since then the buffer changed by deletions of matches alone.
Fresh == ~stale /\ search_word = query

Occurrences(text, word) == {p \in 0..Len(text) : OccursAt(text, word, p)}
Offsets(results) == {results[j] : j \in 1..Len(results)}
ProcessStep == \E d \in Documents : OnProcess(d)

\* C1: a deletion with a non-empty match list, cursor i and query q removes from the
\* text the Len(q) characters that start at matches[i], drops entry i of the match
\* list, keeps every entry before it and lowers every entry after it by Len(q).
C1_DeleteRemovesTheMatch ==
    [][ (OnDeleteCurrentMatch /\ search_results # <<>> /\ Fresh) =>
            LET i == current_search_index
                p == search_results[i + 1]
                n == Len(search_word)
            IN  /\ 0 <= p
                /\ p + n <= Len(masked_text)
                /\ masked_text' = SubSeq(masked_text, 1, p)
                                    \o SubSeq(masked_text, p + n + 1, Len(masked_text))
                /\ Len(search_results') = Len(search_results) - 1
                /\ \A j \in 1..Len(search_results') :
                       search_results'[j] = IF j <= i THEN search_results[j]
                                            ELSE search_results[j + 1] - n
      ]_vars

\* C2: after a search and any navigations and deletions, with no other change of the
\* buffer, every offset p of the match list has 0 <= p <= Len(text) - Len(query) and
\* the query occurs in the text at p; also for queries whose occurrences overlap.
C2_MatchesStayValid ==
    Fresh => \A j \in 1..Len(search_results) :
                 OccursAt(masked_text, query, search_results[j])

\* C3: a search with a non-empty query returns, strictly ascending, exactly the
\* offsets at which the query occurs in the text, overlapping occurrences included;
\* with no occurrence the list is empty and the outcome is "not found", no error.
C3_SearchFindsEveryOccurrence ==
    (lastOp = "search" /\ search_word # <<>>) =>
        /\ \A j \in 1..(Len(search_results) - 1) : search_results[j] < search_results[j + 1]
        /\ Offsets(search_results) = Occurrences(masked_text, search_word)
        /\ search_msg = IF Occurrences(masked_text, search_word) = {}
                        THEN "not_found" ELSE "shown"

\* the search of "AA" in "AAA" returned the two overlapping occurrences
C3_Witness ==
    /\ lastOp = "search"
    /\ masked_text = <<"A", "A", "A">>
    /\ search_word = <<"A", "A">>
    /\ search_results = <<0, 1>>

\* C4: whenever the match list is non-empty the cursor is an index of it, and no
\* handler raises IndexError; a deletion of the last entry moves the cursor to the new
\* last index, a deletion of another entry leaves the cursor, and the deletion of the
\* only entry leaves the empty list and the "all deleted" outcome.
C4_CursorStaysInRange ==
    [][ /\ lastOp' # "IndexError"
        /\ search_results' # <<>> =>
               (0 <= current_search_index' /\ current_search_index' < Len(search_results'))
        /\ (OnDeleteCurrentMatch /\ search_results # <<>>) =>
               LET n == Len(search_results)
                   i == current_search_index
               IN  /\ Len(search_results') = n - 1
                   /\ (n > 1 /\ i = n - 1) => current_search_index' = n - 2
                   /\ (n > 1 /\ i < n - 1) => current_search_index' = i
                   /\ n = 1 => (search_results' = <<>> /\ search_msg' = "all_deleted")
      ]_vars

\* the last of the three matches of "A" in "AxxAxxA" was deleted with the cursor on it
C4_Witness ==
    /\ lastOp = "delete"
    /\ masked_text = <<"A", "x", "x", "A", "x", "x">>
    /\ search_results = <<0, 3>>
    /\ current_search_index = 1

RECURSIVE Forward(_, _, _)
\* the cursor after k steps forward from i among n matches
Forward(i, n, k) == IF k = 0 THEN i ELSE Forward(NextIndex(i, n), n, k - 1)

\* C5: with n >= 1 matches a step forward sets the cursor to (cursor + 1) mod n and a
\* step backward to (cursor - 1) mod n: forward from the last index gives 0, backward
\* from 0 gives n - 1; neither changes the text or the match list, and n steps forward
\* bring the cursor back.
C5_NavigationIsCyclic ==
    [][ LET n == Len(search_results)
            i == current_search_index
        IN  /\ (OnNextSearch /\ n >= 1) =>
                   /\ current_search_index' = (i + 1) % n
                   /\ i = n - 1 => current_search_index' = 0
                   /\ UNCHANGED <<masked_text, search_results>>
                   /\ Forward(i, n, n) = i
            /\ (OnPrevSearch /\ n >= 1) =>
                   /\ current_search_index' = (i - 1) % n
                   /\ i = 0 => current_search_index' = n - 1
                   /\ UNCHANGED <<masked_text, search_results>>
      ]_vars

\* a step forward from the last of three matches
C5_Witness ==
    /\ lastOp = "next"
    /\ Len(search_results) = 3
    /\ current_search_index = 0

\* C6: with an empty match list a step forward, a step backward and a deletion change
\* neither the text nor the match list nor the cursor, and raise no error.
C6_EmptyListIsLeftAlone ==
    [][ ((OnPrevSearch \/ OnNextSearch \/ OnDeleteCurrentMatch) /\ search_results = <<>>) =>
            /\ UNCHANGED <<masked_text, search_results, current_search_index>>
            /\ lastOp' \in {"prev", "next", "delete"}
      ]_vars

\* a step forward after a search that found nothing and left the cursor at 1
C6_Witness ==
    /\ lastOp = "next"
    /\ search_results = <<>>
    /\ current_search_index = 1

\* C7: a search with an empty query is rejected with the "empty query" outcome, leaves
\* the text, and afterwards the session holds no match list to navigate or delete in.
C7_EmptyQueryLeavesNoMatchList ==
    [][ (OnSearch /\ search_word = <<>>) =>
            /\ search_msg' = "empty_query"
            /\ masked_text' = masked_text
            /\ search_results' = <<>>
      ]_vars

\* C8: a run started with confirmation mode on goes to the review screen and hands
\* nothing to the summarizer; a run started with the mode off goes to the hand-off of
\* its redacted text at once (the hand-off is made unless no summarizer can be built)
\* and shows no review screen; toggling the mode hands nothing over; and the
\* summarizer is handed a text only by a confirmation on the review screen or by a
\* run with the mode off.
C8_HandOffOnlyAfterConfirmation ==
    [][ /\ (ProcessStep /\ confirmation_mode) =>
               /\ screen' = "review"
               /\ masked_text' = cleaned_text'
               /\ handed' = handed
        /\ (ProcessStep /\ ~confirmation_mode) =>
               /\ screen' # "review"
               /\ handed' \in {handed, Append(handed, cleaned_text')}
               /\ screen' = "results" => handed' = Append(handed, cleaned_text')
        /\ OnToggleConfirmationMode => (handed' = handed /\ screen' = screen)
        /\ handed' # handed =>
               \/ /\ OnCreateSummaryAfterConfirmation
                  /\ screen = "review"
                  /\ handed' = Append(handed, masked_text)
                  /\ screen' # "review"
               \/ ProcessStep /\ ~confirmation_mode
      ]_vars

\* the only hand-off so far was made by a confirmation, with the mode on
C8_Witness ==
    /\ lastOp = "confirm"
    /\ confirmation_mode
    /\ Len(handed) = 1

\* the characters that occur in a text
CharsOf(text) == {text[i] : i \in 1..Len(text)}

\* C18: the text handed to the summarizer is the review buffer as it is at the
\* confirmation: with confirmation mode on, the redacted text of the current run with
\* every deletion of a match and every manual edit applied; with the mode off, the
\* text clean_text returned for the current files.  It holds no text of an earlier
\* run, and a text once handed over is never changed by what happens later.
C18_HandedTextIsTheReviewBuffer ==
    [][ /\ (handed' # handed /\ OnCreateSummaryAfterConfirmation) =>
               handed' = Append(handed, masked_text)
        /\ (lastOp' = "process") =>
               \A d \in Documents : OnProcess(d) =>
                   /\ handed' # handed =>
                          /\ ~confirmation_mode
                          /\ handed' = Append(handed, CleanedDocument[d].text)
                   /\ confirmation_mode => masked_text' = CleanedDocument[d].text
        /\ (screen' = "review") => CharsOf(masked_text') \subseteq CharsOf(cleaned_text')
        /\ (screen = "review" /\ screen' = "review" /\ masked_text' # masked_text) =>
               /\ lastOp' \in {"delete", "edit", "process", "IndexError"}
               /\ cleaned_text' = cleaned_text \/ lastOp' = "process"
        /\ Len(handed') >= Len(handed)
        /\ \A i \in 1..Len(handed) : handed'[i] = handed[i]
        /\ (screen # "review" /\ masked_text' # masked_text) => ProcessStep
      ]_vars

\* a confirmation handed over a buffer that deletions or edits had changed
C18_Witness ==
    /\ lastOp = "confirm"
    /\ handed # <<>>
    /\ handed[Len(handed)] \notin {CleanedDocument[d].text : d \in Documents}
    /\ handed[Len(handed)] = masked_text

\* C20: what a deletion removes is an occurrence of the query of the search that
\* built the match list, whatever the search field holds now: in every interleaving
\* of edits of the search field, searches, navigation and deletions (the buffer not
\* edited by hand, the offsets of the list valid), a deletion that removes an entry
\* removes Len(q) >= 1 characters equal to q, q the query of that search.
C20_DeletionRemovesTheSearchedQuery ==
    [][ ( /\ OnDeleteCurrentMatch
          /\ Len(search_results') < Len(search_results)
          /\ ~stale
          /\ \A j \in 1..Len(search_results) :
                 OccursAt(masked_text, query, search_results[j]) ) =>
            LET p == PyItem(search_results, current_search_index)
            IN  /\ Len(query) >= 1
                /\ masked_text' = SubSeq(masked_text, 1, p)
                       \o SubSeq(masked_text, p + Len(query) + 1, Len(masked_text))
      ]_vars

\* C21: when a deletion empties the match list and the session reports that every
\* occurrence of the query was deleted, the text holds no occurrence of the query: the
\* removal of a match neither leaves nor creates an occurrence the list does not hold.
\* (Stated for a list that is the one of the last search for the word still in the
\* field, the buffer not edited by hand since, and that holds the offset of every
\* occurrence of the query in the text and no other.)
C21_AllDeletedMeansNoneLeft ==
    [][ ( /\ search_msg' = "all_deleted"
          /\ search_results # <<>>
          /\ Fresh
          /\ Offsets(search_results) = Occurrences(masked_text, query)
          /\ OnDeleteCurrentMatch ) =>
            Occurrences(masked_text', query) = {}
      ]_vars

\* C22: every run that shows the review screen starts it with an empty match list, so
\* that navigation and deletion cannot use offsets computed on the text of a document
\* processed before, until a search was made on the new buffer.
C22_ReviewStartsWithoutMatches ==
    [][ (lastOp' = "process" /\ screen' = "review" /\ ProcessStep) =>
            search_results' = <<>>
      ]_vars

(***************************************************************************)
(* Properties of clean_text, under SpecRedact.                              *)
(***************************************************************************)
IdempotentLabels == {LabelBirthdate, LabelPostal, LabelAddress, LabelPhone, LabelID}

\* C9: clean_text on the text that clean_text returned logs no event of the
\* categories birthdate, postal code, address, phone number and ID.
C9_SecondRunLogsNothing ==
    (pc = "returned" /\ pass_no = 2) =>
        \A j \in 1..Len(replacement_log) : replacement_log[j][1] \notin IdempotentLabels

\* C10: within one run of clean_text no match of a rule covers a character of a
\* placeholder that an earlier rule of the run inserted.
C10_PlaceholdersAreNeverMatched == placeholder_hit = FALSE

\* the position of a category in the order of clean_text
CategoryRank(label) ==
    CASE label = LabelBirthdate -> 1
      [] label \in {LabelPostal, LabelAddress} -> 2
      [] label = LabelPhone -> 3
      [] label = LabelID -> 4
      [] label = LabelName -> 5

PassOrder ==
    { <<"birthdates", "addresses">>, <<"addresses", "phones">>, <<"phones", "ids">>,
      <<"ids", "names">>, <<"names", "returned">> }

\* C11: clean_text runs the passes dates, addresses, phone numbers, IDs, names in this
\* order, each on the output of the one before; so the log never holds an event of an
\* earlier category after an event of a later one, and what the run returns is what
\* the five passes composed in this order give.
C11_PassesRunInFixedOrder ==
    [][ /\ (pc \notin {"idle", "returned"} /\ pc' # pc) => <<pc, pc'>> \in PassOrder
        /\ \A i, j \in 1..Len(replacement_log') :
               i < j => CategoryRank(replacement_log'[i][1]) <= CategoryRank(replacement_log'[j][1])
        /\ (pc' = "returned" /\ pc = "names") =>
               /\ Chars(result') = CleanText(input).text
               /\ replacement_log' = CleanText(input).log
      ]_vars

\* a run returned a log with a date event first and a name event last
C11_Witness ==
    /\ pc = "returned"
    /\ Len(replacement_log) >= 2
    /\ replacement_log[1][1] = LabelBirthdate
    /\ replacement_log[Len(replacement_log)][1] = LabelName

(***************************************************************************)
(* Properties of clean_text on numbers, under SpecPhone.                    *)
(***************************************************************************)
\* the matches of the k-th phone pattern in the text given to clean_text
PhoneShapes(k) == FindAll(Cells(input, TRUE), PhonePatterns[k].alts, 0)

\* the guard of remove_phone_numbers lets the matched text through
GuardExempts(number) == MatchAt(Cells(number, TRUE), 0, PhoneGuardPattern, 1) # <<>>

\* the text with the span from lo to hi replaced by the placeholder of label
Redacted(text, lo, hi, label) ==
    PyUpTo(text, lo) \o Chars(Placeholder(label)) \o PyFrom(text, hi)

\* C12: a phone number of the input in one of the three shapes (hyphenated groups,
\* 10 or 11 bare digits, area code in parentheses) that the guard does not exempt is
\* replaced as a whole by the phone placeholder and logged as one phone event whose
\* value is the whole number; none of its digits is left.
C12_PhoneNumbersAreRedacted ==
    (pc = "returned" /\ pass_no = 1) =>
        \A k \in 1..Len(PhonePatterns) : \A i \in 1..Len(PhoneShapes(k)) :
            LET m == PhoneShapes(k)[i]
                number == PySlice(input, MatchStart(m), MatchEnd(m))
            IN  \/ GuardExempts(number)
                \/ /\ Chars(result) = Redacted(input, MatchStart(m), MatchEnd(m), LabelPhone)
                   /\ replacement_log = << <<LabelPhone, number>> >>

\* the whole of matched has the shape 1-2 digits, hyphen, 1-2 digits, hyphen, 1-2 digits
ExactGuardShape(matched) ==
    LET g == MatchAt(matched, 0, PhoneGuardPattern, 1)
    IN  g # <<>> /\ MatchEnd(g) = Len(matched)

\* the text the phone pass is given holds one match of the phone patterns, and it is a
\* match of the first one (hyphenated groups)
OneHyphenatedMatch ==
    /\ Len(FindAll(result, <<PhonePattern1>>, 0)) = 1
    /\ FindAll(result, <<PhonePattern2>>, 0) = <<>>
    /\ FindAll(result, <<PhonePattern3>>, 0) = <<>>

\* C14: the phone pass leaves a match of the hyphenated pattern as it is, and logs
\* nothing, exactly when the whole matched text has the shape 1-2 digits, hyphen,
\* 1-2 digits, hyphen, 1-2 digits; every other match of this pattern is replaced by
\* the phone placeholder and logged.
C14_GuardExemptsTheExactShapeOnly ==
    [][ (pc = "phones" /\ pc' = "ids" /\ OneHyphenatedMatch) =>
            LET m == FindAll(result, <<PhonePattern1>>, 0)[1]
                matched == Group0(result, m)
            IN  IF ExactGuardShape(matched)
                THEN result' = result /\ replacement_log' = replacement_log
                ELSE /\ Chars(result') =
                            Redacted(Chars(result), MatchStart(m), MatchEnd(m), LabelPhone)
                     /\ replacement_log' = Append(replacement_log, <<LabelPhone, Chars(matched)>>)
      ]_vars

\* a year of four digits, a month and a day of one or two digits, joined by hyphens
IsoDates == {Hyphenated(4, b, c) : b, c \in 1..2}

\* what precedes the number in the text given to clean_text
Lead(text) == IF text # <<>> /\ Head(text) = "x" THEN <<"x">> ELSE <<>>

\* C15: a date written YYYY-M-D is replaced by the date placeholder and logged as a
\* date, and the phone pass neither matches nor logs any part of it; the text 1-2-3
\* (three single digits) alone comes back unchanged with an empty log.
C15_IsoDateIsADateNotAPhone ==
    [][ /\ (pc' = "returned" /\ pass_no' = 1 /\ PyFrom(input', Len(Lead(input'))) \in IsoDates) =>
            /\ Chars(result') = Lead(input') \o Chars(Placeholder(LabelBirthdate))
            /\ replacement_log' =
                   << <<LabelBirthdate, PyFrom(input', Len(Lead(input')))>> >>
        /\ (pc = "phones" /\ pc' = "ids" /\ PyFrom(input, Len(Lead(input))) \in IsoDates) =>
            /\ \A k \in 1..Len(PhonePatterns) : FindAll(result, PhonePatterns[k].alts, 0) = <<>>
            /\ result' = result
            /\ replacement_log' = replacement_log
        /\ (pc' = "returned" /\ pass_no' = 1 /\ input' = Hyphenated(1, 1, 1)) =>
            /\ Chars(result') = input'
            /\ replacement_log' = <<>>
      ]_vars

\* a run on a date YYYY-M-D has returned with a log that is not empty
C15_Witness ==
    /\ pc = "returned"
    /\ pass_no = 1
    /\ input = Hyphenated(4, 1, 2)
    /\ replacement_log # <<>>

(***************************************************************************)
(* Properties of the name pass, under SpecName.                             *)
(***************************************************************************)
\* the label-qualified name matches in the text the name pass is given
NameMatches == FindAll(result, NamePattern3, 0)

\* the candidate of a match: its group, without the blanks around it
Candidate(m) == PyStrip(Chars(PySlice(result, GroupStart(m), MatchEnd(m))))

\* the matches whose candidate contains no protected term
Unprotected ==
    {i \in 1..Len(NameMatches) :
        ~ \E term \in MEDICAL_TERMS : Contains(Candidate(NameMatches[i]), term)}

\* how many name placeholders a text holds
NamePlaceholders(cells) ==
    Cardinality({p \in 0..(Len(cells) - 1) :
        /\ OccursAt(Chars(cells), Chars(Placeholder(LabelName)), p)
        /\ ~cells[p + 1].o})

NameStep == pc = "names" /\ pc' = "returned"

\* C13: a label-qualified name match whose candidate contains a protected term as a
\* substring is left as it is and adds no event; a match whose candidate contains none
\* is replaced and adds exactly one name event.
C13_ProtectedTermsExemptTheName ==
    [][ NameStep =>
          /\ Len(replacement_log') = Len(replacement_log) + Cardinality(Unprotected)
          /\ \A j \in (Len(replacement_log) + 1)..Len(replacement_log') :
                 replacement_log'[j][1] = LabelName
          /\ \A i \in Unprotected :
                 \E j \in (Len(replacement_log) + 1)..Len(replacement_log') :
                     replacement_log'[j] = <<LabelName, Candidate(NameMatches[i])>>
          /\ Unprotected = {} => result' = result
          /\ Unprotected # {} =>
                 /\ result' # result
                 /\ NamePlaceholders(result') > NamePlaceholders(result)
      ]_vars

\* a run returned the text it was given, with an empty log, because the candidate of
\* its one name match holds a protected term next to other characters
C13_Witness ==
    /\ pc = "returned"
    /\ pass_no = 1
    /\ replacement_log = <<>>
    /\ Chars(result) = input
    /\ LET ms == FindAll(Cells(input, TRUE), NamePattern3, 0)
       IN  /\ Len(ms) = 1
           /\ Contains(PySlice(input, GroupStart(ms[1]), MatchEnd(ms[1])), <<"k_haha">>)
           /\ Contains(PySlice(input, GroupStart(ms[1]), MatchEnd(ms[1])), <<"k_ta">>)

\* C16: when a label-qualified name is redacted, one span inside the matched phrase,
\* the name, is replaced by the name placeholder; the label and the delimiter before
\* it stay as they were; there is one placeholder for the one logged name event, and
\* the logged value is not empty.  This is so for every candidate of the name class,
\* blank candidates and candidates equal to the label included.
C16_OneNameOnePlaceholder ==
    [][ (NameStep /\ Len(NameMatches) = 1 /\ Unprotected = {1}) =>
            LET m == NameMatches[1]
            IN  /\ replacement_log' = Append(replacement_log, <<LabelName, Candidate(m)>>)
                /\ Candidate(m) # <<>>
                /\ NamePlaceholders(result') = NamePlaceholders(result) + 1
                /\ PyUpTo(result', GroupStart(m)) = PyUpTo(result, GroupStart(m))
      ]_vars

(***************************************************************************)
(* Properties of clean_text on record IDs, under SpecId.                    *)
(***************************************************************************)
\* C19: for a text made of a record-ID label, a delimiter and an identifier of word
\* characters and hyphens, clean_text replaces label and identifier by the ID
\* placeholder and logs one ID event whose value contains the identifier; the
\* identifier is no longer in the text.
C19_RecordIdIsRedacted ==
    (pc = "returned" /\ pass_no = 1) =>
        \A l \in IdLabels, del \in IdDelimiters, id \in Identifiers :
            input = l \o del \o id =>
                /\ Chars(result) = Chars(Placeholder(LabelID))
                /\ Len(replacement_log) = 1
                /\ replacement_log[1][1] = LabelID
                /\ Contains(replacement_log[1][2], id)

(***************************************************************************)
(* Properties of get_summary_report, under SpecReport.                      *)
(***************************************************************************)
\* the values of the events of category c, in the order of the log
ValuesOf(log, c) ==
    LET idx == {i \in 1..Len(log) : log[i][1] = c}
        Nth(k) == CHOOSE i \in idx : Cardinality({j \in idx : j < i}) = k - 1
    IN  [k \in 1..Cardinality(idx) |-> log[Nth(k)][2]]

\* the categories of the log, by their first event
FirstSeen(log) ==
    LET cats == {log[i][1] : i \in 1..Len(log)}
        First(c) == Least({i \in 1..Len(log) : log[i][1] = c})
    IN  [k \in 1..Cardinality(cats) |->
            CHOOSE c \in cats : Cardinality({d \in cats : First(d) < First(c)}) = k - 1]

\* the lines the report is to hold for category c
Block(log, c) ==
    LET values == ValuesOf(log, c)
        n == Len(values)
    IN  <<CategoryLine(c, n)>>
            \o [i \in 1..Min(3, n) |-> ExampleLine(i, values[i])]
            \o (IF n > 3 THEN <<MoreLine(n - 3)>> ELSE <<>>)

\* C17: get_summary_report returns the fixed message when the log is empty; otherwise
\* it lists the categories in the order they were first seen, each with its count n,
\* its first min(3, n) values in the order met, and a remainder line with n - 3 exactly
\* when n > 3; the call changes neither the log nor anything else.
C17_ReportListsThreeExamples ==
    [][ GetSummaryReport =>
          /\ report' =
                IF replacement_log = <<>> THEN <<NoPiiMessage>>
                ELSE <<HeaderLine>> \o
                     Flatten([k \in 1..Len(FirstSeen(replacement_log)) |->
                                 Block(replacement_log, FirstSeen(replacement_log)[k])])
          /\ replacement_log' = replacement_log
          /\ UNCHANGED appVars
          /\ UNCHANGED redactVars
      ]_vars

\* the report of a log with five events of one category: three examples and a
\* remainder line of two
C17_Witness ==
    /\ Len(replacement_log) = 5
    /\ \A i \in 1..5 : replacement_log[i][1] = LabelName
    /\ Len(report) = 6
    /\ report[6] = MoreLine(2)
    /\ report[5] = ExampleLine(3, replacement_log[3][2])

====
